---- MODULE Spec2Model ----
(***************************************************************************)
(* Model of the Bizzee lead-search function.                               *)
(*                                                                         *)
(* Two handler variants exist in the repository:                           *)
(*   - the richer one (src/unnamed/part_000), modelled by the unprefixed   *)
(*     definitions and variables;                                          *)
(*   - the terser one (src/pathfinder/netlify/functions/search.js),        *)
(*     modelled by the T_ definitions and t_ variables.                    *)
(*                                                                         *)
(* One invocation of a handler is modelled as a process whose steps are    *)
(* the stretches of code between two awaits.  The upstream (search,        *)
(* detail, website) is an environment whose behaviour is chosen when a     *)
(* call is issued and remembered, so that both variants see the same       *)
(* upstream.  sleep(120) is folded into the step that issues the next      *)
(* call: it only delays it.                                                *)
(*                                                                         *)
(* JavaScript values are records [t |-> type, s |-> String(value)], and a  *)
(* string is a sequence of fragments.                                      *)
(***************************************************************************)
EXTENDS Integers, Sequences, FiniteSets, TLC

(***************************************************************************)
(* Bounds                                                                  *)
(***************************************************************************)
MaxPlaces == 2

(***************************************************************************)
(* JavaScript values                                                       *)
(***************************************************************************)
Undef == [t |-> "undefined", s |-> <<"undefined">>]
Null == [t |-> "null", s |-> <<"null">>]
Str(s) == [t |-> "string", s |-> s]
Num(s) == [t |-> "number", s |-> s]
Bool(b) == [t |-> "boolean", s |-> IF b THEN <<"true">> ELSE <<"false">>]
Empty == Str(<< >>)

\* ToBoolean: what `!x`, `x || y`, `if (x)` test.
Truthy(v) ==
  CASE v.t = "string" -> v.s # << >>
    [] v.t = "number" -> v.s # <<"0">>
    [] v.t = "boolean" -> v.s = <<"true">>
    [] OTHER -> FALSE

\* a || b
OrElse(a, b) == IF Truthy(a) THEN a ELSE b

IsString(v) == v.t = "string"

\* String.prototype.trim on a sequence of fragments (" " is white space).
RECURSIVE TrimLeft(_)
TrimLeft(s) == IF s # << >> /\ Head(s) = " " THEN TrimLeft(Tail(s)) ELSE s

RECURSIVE TrimRight(_)
TrimRight(s) ==
  IF s # << >> /\ s[Len(s)] = " " THEN TrimRight(SubSeq(s, 1, Len(s) - 1)) ELSE s

Trim(s) == TrimRight(TrimLeft(s))

StartsWith(s, pre) == Len(s) >= Len(pre) /\ SubSeq(s, 1, Len(pre)) = pre

Min(a, b) == IF a < b THEN a ELSE b

(***************************************************************************)
(* Inputs: the event, the environment, the upstream behaviours             *)
(***************************************************************************)
Methods == {"OPTIONS", "POST", "GET"}

\* process.env.GOOGLE_MAPS_API_KEY: unset, set to "", set to a key.
ApiKeys == {Undef, Empty, Str(<<"key">>)}

BusinessTypes == {Undef, Empty, Str(<<" ">>), Str(<<" ", "plumber", " ">>), Num(<<"7">>)}
Cities == {Undef, Str(<<" ">>), Str(<<"Christchurch">>)}
Includes == {Undef, Bool(FALSE), Bool(TRUE)}

\* event.body: text that does not parse, the text "null", or an object.
MkBody(kind, bt, city, inc) ==
  [kind |-> kind, businessType |-> bt, city |-> city, includeWebsiteEmail |-> inc]

Bodies ==
  {MkBody("invalid", Undef, Undef, Undef), MkBody("null", Undef, Undef, Undef)}
  \cup {MkBody("object", bt, c, i) : bt \in BusinessTypes, c \in Cities, i \in Includes}

\* A place of the search response; isNull marks a null array entry.
MkPlace(isNull, id, hasDisplayName, text, addr) ==
  [isNull |-> isNull, id |-> id,
   displayName |-> [present |-> hasDisplayName, text |-> text],
   formattedAddress |-> addr]

PlaceNull == MkPlace(TRUE, Undef, FALSE, Undef, Undef)
PlaceA == MkPlace(FALSE, Str(<<"A">>), TRUE, Str(<<"Acme">>), Str(<<"1 Main St">>))
PlaceB == MkPlace(FALSE, Num(<<"7">>), TRUE, Num(<<"7">>), Num(<<"7">>))
PlaceC == MkPlace(FALSE, Empty, FALSE, Undef, Null)
PlaceSamples == {PlaceNull, PlaceA, PlaceB, PlaceC}

RECURSIVE SeqsUpTo(_, _)
SeqsUpTo(S, n) ==
  IF n = 0 THEN {<< >>}
  ELSE LET shorter == SeqsUpTo(S, n - 1)
       IN shorter \cup {Append(q, x) : q \in {r \in shorter : Len(r) = n - 1}, x \in S}

\* The length limit of cleanGoogleError.
MsgLimit == 500

\* The text of an error response: whether it parses, the lengths of
\* data.error.message and data.message (0: absent or empty) and of the text.
MkErrText(json, em, m, raw) == [json |-> json, errorMessage |-> em, message |-> m, raw |-> raw]
ErrTexts ==
  {MkErrText(TRUE, MsgLimit + 1, 7, MsgLimit + 40),
   MkErrText(TRUE, 0, 20, 60),
   MkErrText(TRUE, 0, 0, 30),
   MkErrText(FALSE, 0, 0, MsgLimit + 300)}
NoErrText == MkErrText(FALSE, 0, 0, 0)

\* Search behaviours: fetch rejects; a non-success status with an error
\* text; success with a body that does not parse, that is "null", that has
\* no places, whose places is not iterable, or whose places is an array.
MkSearch(kind, err, places) == [kind |-> kind, err |-> err, places |-> places]
SearchBehaviours ==
  {MkSearch(k, NoErrText, << >>) : k \in {"reject", "unparsable", "null", "noplaces", "notiterable"}}
  \cup {MkSearch("notok", e, << >>) : e \in ErrTexts}
  \cup {MkSearch("array", NoErrText, ps) : ps \in SeqsUpTo(PlaceSamples, MaxPlaces)}
NoSearch == MkSearch("none", NoErrText, << >>)

HttpSite == Str(<<"h", "t", "t", "p", "s://acme.nz">>)
FtpSite == Str(<<"f", "t", "p", "://acme.nz">>)

\* Detail behaviours: fetch rejects; non-success status; success with a
\* body that does not parse, that is "null", or an object with websiteUri.
MkDetail(kind, websiteUri) == [kind |-> kind, websiteUri |-> websiteUri]
DetailBehaviours ==
  {MkDetail(k, Undef) : k \in {"reject", "notok", "unparsable", "null"}}
  \cup {MkDetail("object", w) : w \in {Undef, Empty, HttpSite, FtpSite, Num(<<"7">>)}}

\* A page is a sequence of tokens: text, a mailto: link, a bare address.
Tok(kind, addr) == [kind |-> kind, addr |-> addr]
Pages ==
  {<<Tok("text", << >>)>>,
   <<Tok("text", << >>), Tok("bare", <<"jane@company.co.nz">>)>>,
   <<Tok("bare", <<"jane@company.co.nz">>), Tok("mailto", <<"test@example.com">>)>>}

\* Website behaviours: never answers; fetch rejects; non-success status;
\* headers and then a body that never finishes ("stall"), that fails
\* ("bodyfail"), or that arrives ("page").
MkSite(kind, html) == [kind |-> kind, html |-> html]
SiteBehaviours ==
  {MkSite(k, << >>) : k \in {"never", "reject", "notok", "stall", "bodyfail"}}
  \cup {MkSite("page", h) : h \in Pages}

(***************************************************************************)
(* State                                                                   *)
(***************************************************************************)
VARIABLES
  event,      \* the request: httpMethod and body
  apiKey,     \* process.env.GOOGLE_MAPS_API_KEY
  searchB,    \* upstream: how the search call behaves
  detailB,    \* upstream: how the detail call of place i behaves
  siteB,      \* upstream: how the website of place i behaves
  pc,         \* richer handler: the await it is suspended at
  query,      \* richer handler: const query
  places,     \* richer handler: const places
  idx,        \* richer handler: position of the for-of loop, from 1
  website,    \* richer handler: let website of the current iteration
  results,    \* richer handler: const results
  response,   \* richer handler: the value the promise resolved to
  outcome,    \* richer handler: "pending", "returned" or "rejected"
  timer,      \* richer handler: the abort timer of the fetch in flight is pending
  failed,     \* history: iterations whose per-place catch block ran
  trace,      \* history: outbound calls issued by the richer handler
  inflight,   \* history: outbound calls issued and not yet settled
  aborted,    \* history: iterations whose website fetch the timer aborted
  t_pc, t_query, t_places, t_idx, t_website, t_results, t_response, t_outcome,
  t_trace     \* the same for the terser handler

inputVars == <<event, apiKey>>
netVars == <<searchB, detailB, siteB>>
richVars == <<pc, query, places, idx, website, results, response, outcome, timer,
              failed, trace, inflight, aborted>>
terseVars == <<t_pc, t_query, t_places, t_idx, t_website, t_results, t_response,
               t_outcome, t_trace>>
vars == <<inputVars, netVars, richVars, terseVars>>

NoDetail == MkDetail("none", Undef)
NoSite == MkSite("none", << >>)

\* A behaviour already chosen for a call is the behaviour of that call.
Choices(memo, all) == IF memo.kind = "none" THEN all ELSE {memo}

(***************************************************************************)
(* Responses                                                               *)
(***************************************************************************)
\* err.message: the text kind, and for an upstream failure the source
\* and the length of the provider-reported message it carries.
MkError(text, src, len) == [text |-> text, src |-> src, len |-> len]
NoError == MkError("", "", 0)

MkBodyOut(isJson, keys, error, q, count, res) ==
  [isJson |-> isJson, keys |-> keys, error |-> error, query |-> q, count |-> count,
   results |-> res]

\* { statusCode: 204, headers, body: "" }
Preflight == [statusCode |-> 204, body |-> MkBodyOut(FALSE, {}, NoError, << >>, 0, << >>)]

\* json(headers, statusCode, obj) for the error objects
JsonError(statusCode, keys, error) ==
  [statusCode |-> statusCode, body |-> MkBodyOut(TRUE, keys, error, << >>, 0, << >>)]

\* json(headers, 200, { query, count: results.length, results })
CountOf(res) == Len(res)
JsonOk(q, res) ==
  [statusCode |-> 200,
   body |-> MkBodyOut(TRUE, {"query", "count", "results"}, NoError, q, CountOf(res), res)]

NoResponse == [statusCode |-> 0, body |-> MkBodyOut(FALSE, {}, NoError, << >>, 0, << >>)]

Settled(out, resp) == [outcome |-> out, response |-> resp]

\* The handler's catch (err) block: every exception becomes a 500.
HandlerCatch_rethrow(err) == Settled("rejected", NoResponse)
HandlerCatch(err) == Settled("returned", JsonError(500, {"error", "hint"}, err))

TypeError == MkError("TypeError", "", 0)
FetchFailed == MkError("fetch failed", "", 0)

(***************************************************************************)
(* Helpers of the richer handler                                           *)
(***************************************************************************)
\* if (!API_KEY)
KeyMissing_never(k) == FALSE
KeyMissing(k) == ~Truthy(k)

\* if (!businessType || !city)
Invalid(bt, city) == ~Truthy(bt) \/ ~Truthy(city)

\* `${String(businessType).trim()} in ${String(city).trim()}, New Zealand`
BuildQuery(bt, city) == Trim(bt.s) \o <<" in ">> \o Trim(city.s) \o <<", New Zealand">>

\* String(msg).slice(0, 500) of data?.error?.message || data?.message || text
cleanGoogleError_noslice(text) ==
  IF text.json /\ text.errorMessage > 0 THEN [src |-> "error.message", len |-> text.errorMessage]
  ELSE IF text.json /\ text.message > 0 THEN [src |-> "message", len |-> text.message]
  ELSE [src |-> "text", len |-> text.raw]
cleanGoogleError(text) ==
  IF text.json /\ text.errorMessage > 0
    THEN [src |-> "error.message", len |-> Min(text.errorMessage, MsgLimit)]
  ELSE IF text.json /\ text.message > 0
    THEN [src |-> "message", len |-> Min(text.message, MsgLimit)]
  ELSE [src |-> "text", len |-> Min(text.raw, MsgLimit)]

\* new Error(`Places Text Search failed (${resp.status}): ${cleanGoogleError(text)}`)
SearchError(text) ==
  LET m == cleanGoogleError(text) IN MkError("Places Text Search failed", m.src, m.len)

\* data?.places || [] of safeJson(text); a places that is not iterable
\* makes the for-of throw.
PlacesOf(b) == IF b.kind = "array" THEN b.places ELSE << >>

\* if (includeWebsiteEmail && placeId)
ShouldEnrich_always(inc, placeId) == TRUE
ShouldEnrich(inc, placeId) == Truthy(inc) /\ Truthy(placeId)

\* p.displayName?.text
DisplayText(p) == IF p.displayName.present THEN p.displayName.text ELSE Undef

\* placeId ? `https://www.google.com/maps/place/?q=place_id:${placeId}` : ""
MapsUrl_always(placeId) ==
  Str(<<"https://www.google.com/maps/place/?q=place_id:">> \o placeId.s)
MapsUrl(placeId) ==
  IF Truthy(placeId)
    THEN Str(<<"https://www.google.com/maps/place/?q=place_id:">> \o placeId.s)
    ELSE Empty

\* The object pushed for place p.
Entry(p, w, e) ==
  [name |-> OrElse(DisplayText(p), Empty),
   address |-> OrElse(p.formattedAddress, Empty),
   website |-> w, email |-> e, google_maps_url |-> MapsUrl(p.id)]

\* results.push(entry)
Push_front(res, entry) == <<entry>> \o res
Push(res, entry) == Append(res, entry)

\* safeJson(text) || {} and then details.websiteUri
WebsiteUriOf(b) == IF b.kind = "object" THEN b.websiteUri ELSE Undef

\* The two html.match calls: the first mailto: link, else the first
\* address anywhere (a mailto: link holds an address too).
FirstOf(html, kinds) ==
  LET I == {i \in 1..Len(html) : html[i].kind \in kinds}
  IN IF I = {} THEN << >> ELSE html[CHOOSE i \in I : \A j \in I : i <= j].addr

ExtractEmail(html) ==
  IF FirstOf(html, {"mailto"}) # << >> THEN Str(FirstOf(html, {"mailto"}))
  ELSE Str(FirstOf(html, {"mailto", "bare"}))

Call(kind, i) == [call |-> kind, place |-> i]

(***************************************************************************)
(* Initial state                                                           *)
(***************************************************************************)
Init ==
  /\ event \in [httpMethod : Methods, body : Bodies]
  /\ apiKey \in ApiKeys
  /\ searchB = NoSearch
  /\ detailB = [i \in 1..MaxPlaces |-> NoDetail]
  /\ siteB = [i \in 1..MaxPlaces |-> NoSite]
  /\ pc = "start"
  /\ query = << >>
  /\ places = << >>
  /\ idx = 1
  /\ website = Empty
  /\ results = << >>
  /\ response = NoResponse
  /\ outcome = "pending"
  /\ timer = FALSE
  /\ failed = {}
  /\ trace = << >>
  /\ inflight = 0
  /\ aborted = {}
  /\ t_pc = "start"
  /\ t_query = << >>
  /\ t_places = << >>
  /\ t_idx = 1
  /\ t_website = Empty
  /\ t_results = << >>
  /\ t_response = NoResponse
  /\ t_outcome = "pending"
  /\ t_trace = << >>

(***************************************************************************)
(* The richer handler (src/unnamed/part_000)                               *)
(***************************************************************************)
\* The promise of the handler settles.
Finish(r) ==
  /\ pc' = "done"
  /\ response' = r.response
  /\ outcome' = r.outcome

\* An outbound call is issued.
Issue(kind, i) ==
  /\ trace' = Append(trace, Call(kind, i))
  /\ inflight' = inflight + 1

\* The end of one iteration of the loop: results.push({...}).
PushAndContinue(w, e) ==
  /\ results' = Push(results, Entry(places[idx], w, e))
  /\ idx' = idx + 1
  /\ pc' = "loop"

\* Lines 12-62: from the call of the handler to its first await.
HandlerStart ==
  /\ pc = "start"
  /\ LET body == event.body IN
     IF event.httpMethod = "OPTIONS" THEN
       /\ Finish(Settled("returned", Preflight))
       /\ UNCHANGED <<query, trace, inflight, searchB>>
     ELSE IF event.httpMethod # "POST" THEN
       /\ Finish(Settled("returned", JsonError(405, {"error"}, MkError("Method not allowed. Use POST.", "", 0))))
       /\ UNCHANGED <<query, trace, inflight, searchB>>
     ELSE IF KeyMissing(apiKey) THEN
       /\ Finish(Settled("returned", JsonError(500, {"error", "hint"}, MkError("Missing GOOGLE_MAPS_API_KEY", "", 0))))
       /\ UNCHANGED <<query, trace, inflight, searchB>>
     ELSE IF body.kind = "invalid" THEN
       /\ Finish(Settled("returned", JsonError(400, {"error", "hint"}, MkError("Invalid JSON body", "", 0))))
       /\ UNCHANGED <<query, trace, inflight, searchB>>
     ELSE IF body.kind = "null" THEN
       \* const { businessType, ... } = null throws
       /\ Finish(HandlerCatch(TypeError))
       /\ UNCHANGED <<query, trace, inflight, searchB>>
     ELSE IF Invalid(body.businessType, body.city) THEN
       /\ Finish(Settled("returned", JsonError(400, {"error", "example"}, MkError("businessType and city required", "", 0))))
       /\ UNCHANGED <<query, trace, inflight, searchB>>
     ELSE
       /\ query' = BuildQuery(body.businessType, body.city)
       /\ \E b \in Choices(searchB, SearchBehaviours) : searchB' = b
       /\ Issue("search", 0)
       /\ pc' = "awaitSearch"
       /\ UNCHANGED <<response, outcome>>
  /\ UNCHANGED <<inputVars, detailB, siteB, places, idx, website, results, timer, failed, terseVars, aborted>>

\* placesTextSearch settles (lines 123-148) and the loop is entered.
SearchSettles ==
  /\ pc = "awaitSearch"
  /\ inflight' = inflight - 1
  /\ IF searchB.kind = "reject" THEN
       Finish(HandlerCatch(FetchFailed)) /\ UNCHANGED places
     ELSE IF searchB.kind = "notok" THEN
       Finish(HandlerCatch(SearchError(searchB.err))) /\ UNCHANGED places
     ELSE IF searchB.kind = "notiterable" THEN
       \* for (const p of places) throws
       Finish(HandlerCatch(TypeError)) /\ UNCHANGED places
     ELSE
       /\ places' = PlacesOf(searchB)
       /\ pc' = "loop"
       /\ UNCHANGED <<response, outcome>>
  /\ UNCHANGED <<inputVars, netVars, query, idx, website, results, timer, failed, trace, terseVars, aborted>>

\* Lines 66-78 and 102: the head of one iteration, or the end of the loop.
LoopStep ==
  /\ pc = "loop"
  /\ IF idx > Len(places) THEN
       /\ Finish(Settled("returned", JsonOk(query, results)))
       /\ UNCHANGED <<idx, results, website, trace, inflight, detailB>>
     ELSE IF places[idx].isNull THEN
       \* p.id of a null entry throws
       /\ Finish(HandlerCatch(TypeError))
       /\ UNCHANGED <<idx, results, website, trace, inflight, detailB>>
     ELSE IF ShouldEnrich(event.body.includeWebsiteEmail, places[idx].id) THEN
       /\ \E b \in Choices(detailB[idx], DetailBehaviours) :
            detailB' = [detailB EXCEPT ![idx] = b]
       /\ Issue("detail", idx)
       /\ website' = Empty
       /\ pc' = "awaitDetail"
       /\ UNCHANGED <<idx, results, response, outcome>>
     ELSE
       /\ PushAndContinue(Empty, Empty)
       /\ website' = Empty
       /\ UNCHANGED <<response, outcome, trace, inflight, detailB>>
  /\ UNCHANGED <<inputVars, searchB, siteB, query, places, timer, failed, terseVars, aborted>>

\* placeDetails settles (lines 150-165); lines 79-83 and the head of
\* findEmailFromWebsite (lines 169-179) follow.
DetailSettles ==
  /\ pc = "awaitDetail"
  /\ LET b == detailB[idx]
         w == OrElse(WebsiteUriOf(b), Empty)
     IN
     IF b.kind \in {"reject", "notok"} THEN
       \* placeDetails throws: the per-place catch
       /\ failed' = failed \cup {idx}
       /\ PushAndContinue(website, Empty)
       /\ inflight' = inflight - 1
       /\ UNCHANGED <<website, timer, trace, siteB>>
     ELSE IF ~Truthy(w) THEN
       /\ PushAndContinue(w, Empty)
       /\ inflight' = inflight - 1
       /\ website' = w
       /\ UNCHANGED <<failed, timer, trace, siteB>>
     ELSE IF ~IsString(w) THEN
       \* url.startsWith is not a function: findEmailFromWebsite throws
       \* after website was assigned; the per-place catch
       /\ failed' = failed \cup {idx}
       /\ PushAndContinue(w, Empty)
       /\ inflight' = inflight - 1
       /\ website' = w
       /\ UNCHANGED <<timer, trace, siteB>>
     ELSE IF ~StartsWith(w.s, <<"h", "t", "t", "p">>) THEN
       /\ PushAndContinue(w, Empty)
       /\ inflight' = inflight - 1
       /\ website' = w
       /\ UNCHANGED <<failed, timer, trace, siteB>>
     ELSE
       /\ website' = w
       /\ timer' = TRUE
       /\ \E sb \in Choices(siteB[idx], SiteBehaviours) : siteB' = [siteB EXCEPT ![idx] = sb]
       /\ trace' = Append(trace, Call("site", idx))
       /\ inflight' = inflight - 1 + 1
       /\ pc' = "awaitSite"
       /\ UNCHANGED <<failed, idx, results>>
  /\ UNCHANGED <<inputVars, searchB, detailB, query, places, response, outcome, terseVars, aborted>>

\* fetch(url) settles (lines 176-182).
SiteHeaders ==
  /\ pc = "awaitSite"
  /\ siteB[idx].kind # "never"
  /\ timer' = FALSE
  /\ IF siteB[idx].kind \in {"reject", "notok"} THEN
       \* catch { return "" }, or if (!resp.ok) return "".  After a
       \* rejection the timer is not cleared, but its controller has no
       \* fetch left to abort.
       /\ PushAndContinue(website, Empty)
       /\ inflight' = inflight - 1
     ELSE
       \* clearTimeout(timeout), then await resp.text()
       /\ pc' = "awaitBody"
       /\ UNCHANGED <<idx, results, inflight>>
  /\ UNCHANGED <<inputVars, netVars, query, places, website, response, outcome, failed, trace, terseVars, aborted>>

\* resp.text() settles (lines 184-193).
SiteBody ==
  /\ pc = "awaitBody"
  /\ siteB[idx].kind \in {"page", "bodyfail"}
  /\ IF siteB[idx].kind = "page"
       THEN PushAndContinue(website, ExtractEmail(siteB[idx].html))
       ELSE PushAndContinue(website, Empty)
  /\ inflight' = inflight - 1
  /\ UNCHANGED <<inputVars, netVars, query, places, website, response, outcome, timer, failed, trace, terseVars, aborted>>

\* The 6-second timer fires (line 174): controller.abort() rejects the
\* fetch still waiting for the response; catch { return "" }.
AbortFires ==
  /\ timer
  /\ pc = "awaitSite"
  /\ timer' = FALSE
  /\ PushAndContinue(website, Empty)
  /\ inflight' = inflight - 1
  /\ aborted' = aborted \cup {idx}
  /\ UNCHANGED <<inputVars, netVars, query, places, website, response, outcome, failed, trace, terseVars>>

Next ==
  \/ HandlerStart
  \/ SearchSettles
  \/ LoopStep
  \/ DetailSettles
  \/ SiteHeaders
  \/ SiteBody
  \/ AbortFires

Spec == Init /\ [][Next]_vars

(***************************************************************************)
(* The terser handler (src/pathfinder/netlify/functions/search.js)         *)
(*                                                                         *)
(* It is run on the same event, credential and upstream once the richer    *)
(* handler has settled or can take no further step; the two invocations    *)
(* share no state, so the order of their steps does not matter.            *)
(***************************************************************************)
RichIdle ==
  \/ pc = "done"
  \/ pc = "awaitBody" /\ siteB[idx].kind = "stall"

\* catch (err) of the terser handler
T_Catch(err) == Settled("returned", JsonError(500, {"error"}, err))

\* if (!API_KEY)
T_KeyMissing(k) == ~Truthy(k)

\* if (!businessType || !city)
T_Invalid(bt, city) == ~Truthy(bt) \/ ~Truthy(city)

\* `${businessType} in ${city}, New Zealand`
T_BuildQuery(bt, city) == bt.s \o <<" in ">> \o city.s \o <<", New Zealand">>

\* if (includeWebsiteEmail && placeId)
T_ShouldEnrich(inc, placeId) == Truthy(inc) /\ Truthy(placeId)

\* The object pushed for place p (lines 52-60).
T_Entry(p, w, e) ==
  [name |-> OrElse(IF p.displayName.present THEN p.displayName.text ELSE Undef, Empty),
   address |-> OrElse(p.formattedAddress, Empty),
   website |-> w, email |-> e,
   google_maps_url |->
     IF Truthy(p.id) THEN Str(<<"https://www.google.com/maps/place/?q=place_id:">> \o p.id.s)
     ELSE Empty]

\* { statusCode: 200, headers, body: JSON.stringify({ query, results }) }
T_JsonOk(q, res) ==
  [statusCode |-> 200, body |-> MkBodyOut(TRUE, {"query", "results"}, NoError, q, 0, res)]

T_Finish(r) ==
  /\ t_pc' = "done"
  /\ t_response' = r.response
  /\ t_outcome' = r.outcome

T_PushAndContinue(w, e) ==
  /\ t_results' = Append(t_results, T_Entry(t_places[t_idx], w, e))
  /\ t_idx' = t_idx + 1
  /\ t_pc' = "loop"

\* Lines 10-31.
T_Start ==
  /\ RichIdle
  /\ t_pc = "start"
  /\ LET body == event.body IN
     IF event.httpMethod = "OPTIONS" THEN
       T_Finish(Settled("returned", Preflight)) /\ UNCHANGED <<t_query, t_trace, searchB>>
     ELSE IF event.httpMethod # "POST" THEN
       /\ T_Finish(Settled("returned", JsonError(405, {"error"}, MkError("Method not allowed", "", 0))))
       /\ UNCHANGED <<t_query, t_trace, searchB>>
     ELSE IF T_KeyMissing(apiKey) THEN
       /\ T_Finish(Settled("returned", JsonError(500, {"error"}, MkError("Missing GOOGLE_MAPS_API_KEY", "", 0))))
       /\ UNCHANGED <<t_query, t_trace, searchB>>
     ELSE IF body.kind = "invalid" THEN
       \* JSON.parse throws
       T_Finish(T_Catch(MkError("SyntaxError", "", 0))) /\ UNCHANGED <<t_query, t_trace, searchB>>
     ELSE IF body.kind = "null" THEN
       T_Finish(T_Catch(TypeError)) /\ UNCHANGED <<t_query, t_trace, searchB>>
     ELSE IF T_Invalid(body.businessType, body.city) THEN
       /\ T_Finish(Settled("returned", JsonError(400, {"error"}, MkError("businessType and city required", "", 0))))
       /\ UNCHANGED <<t_query, t_trace, searchB>>
     ELSE
       /\ t_query' = T_BuildQuery(body.businessType, body.city)
       /\ \E b \in Choices(searchB, SearchBehaviours) : searchB' = b
       /\ t_trace' = Append(t_trace, Call("search", 0))
       /\ t_pc' = "awaitSearch"
       /\ UNCHANGED <<t_response, t_outcome>>
  /\ UNCHANGED <<inputVars, detailB, siteB, richVars, t_places, t_idx, t_website, t_results>>

\* placesTextSearch settles (lines 80-99).
T_SearchSettles ==
  /\ RichIdle
  /\ t_pc = "awaitSearch"
  /\ IF searchB.kind = "reject" THEN
       T_Finish(T_Catch(FetchFailed)) /\ UNCHANGED t_places
     ELSE IF searchB.kind = "notok" THEN
       \* throw new Error(text): the whole text
       T_Finish(T_Catch(MkError("text", "text", searchB.err.raw))) /\ UNCHANGED t_places
     ELSE IF searchB.kind = "unparsable" THEN
       T_Finish(T_Catch(MkError("SyntaxError", "", 0))) /\ UNCHANGED t_places
     ELSE IF searchB.kind \in {"null", "notiterable"} THEN
       \* JSON.parse(text).places of null, or for-of of a non-iterable
       T_Finish(T_Catch(TypeError)) /\ UNCHANGED t_places
     ELSE
       /\ t_places' = PlacesOf(searchB)
       /\ t_pc' = "loop"
       /\ UNCHANGED <<t_response, t_outcome>>
  /\ UNCHANGED <<inputVars, netVars, richVars, t_query, t_idx, t_website, t_results, t_trace>>

\* Lines 35-45 and 63-67.
T_LoopStep ==
  /\ RichIdle
  /\ t_pc = "loop"
  /\ IF t_idx > Len(t_places) THEN
       /\ T_Finish(Settled("returned", T_JsonOk(t_query, t_results)))
       /\ UNCHANGED <<t_idx, t_results, t_trace, detailB>>
     ELSE IF t_places[t_idx].isNull THEN
       /\ T_Finish(T_Catch(TypeError))
       /\ UNCHANGED <<t_idx, t_results, t_trace, detailB>>
     ELSE IF T_ShouldEnrich(event.body.includeWebsiteEmail, t_places[t_idx].id) THEN
       /\ \E b \in Choices(detailB[t_idx], DetailBehaviours) :
            detailB' = [detailB EXCEPT ![t_idx] = b]
       /\ t_trace' = Append(t_trace, Call("detail", t_idx))
       /\ t_pc' = "awaitDetail"
       /\ UNCHANGED <<t_idx, t_results, t_response, t_outcome>>
     ELSE
       /\ T_PushAndContinue(Empty, Empty)
       /\ UNCHANGED <<t_response, t_outcome, t_trace, detailB>>
  /\ UNCHANGED <<inputVars, searchB, siteB, richVars, t_query, t_places, t_website>>

\* placeDetails settles (lines 101-112); lines 46-49 and 116-119 follow.
T_DetailSettles ==
  /\ RichIdle
  /\ t_pc = "awaitDetail"
  /\ LET b == detailB[t_idx]
         w == OrElse(b.websiteUri, Empty)
     IN
     IF b.kind \in {"reject", "notok"} THEN
       \* no per-place catch: the request fails
       /\ T_Finish(T_Catch(IF b.kind = "reject" THEN FetchFailed ELSE MkError("text", "text", 0)))
       /\ UNCHANGED <<t_idx, t_results, t_website, t_trace, siteB>>
     ELSE IF b.kind = "unparsable" THEN
       /\ T_Finish(T_Catch(MkError("SyntaxError", "", 0)))
       /\ UNCHANGED <<t_idx, t_results, t_website, t_trace, siteB>>
     ELSE IF b.kind = "null" THEN
       \* details.websiteUri of null
       /\ T_Finish(T_Catch(TypeError))
       /\ UNCHANGED <<t_idx, t_results, t_website, t_trace, siteB>>
     ELSE IF ~Truthy(w) THEN
       /\ T_PushAndContinue(w, Empty)
       /\ t_website' = w
       /\ UNCHANGED <<t_response, t_outcome, t_trace, siteB>>
     ELSE IF ~IsString(w) THEN
       \* url.startsWith is not a function
       /\ T_Finish(T_Catch(TypeError))
       /\ UNCHANGED <<t_idx, t_results, t_website, t_trace, siteB>>
     ELSE IF ~StartsWith(w.s, <<"h", "t", "t", "p">>) THEN
       /\ T_PushAndContinue(w, Empty)
       /\ t_website' = w
       /\ UNCHANGED <<t_response, t_outcome, t_trace, siteB>>
     ELSE
       /\ t_website' = w
       /\ \E sb \in Choices(siteB[t_idx], SiteBehaviours) : siteB' = [siteB EXCEPT ![t_idx] = sb]
       /\ t_trace' = Append(t_trace, Call("site", t_idx))
       /\ t_pc' = "awaitSite"
       /\ UNCHANGED <<t_idx, t_results, t_response, t_outcome>>
  /\ UNCHANGED <<inputVars, searchB, detailB, richVars, t_query, t_places>>

\* fetch(url) settles (lines 119-120); there is no abort timer.
T_SiteHeaders ==
  /\ RichIdle
  /\ t_pc = "awaitSite"
  /\ siteB[t_idx].kind # "never"
  /\ IF siteB[t_idx].kind \in {"reject", "notok"}
       THEN T_PushAndContinue(t_website, Empty)
       ELSE t_pc' = "awaitBody" /\ UNCHANGED <<t_idx, t_results>>
  /\ UNCHANGED <<inputVars, netVars, richVars, t_query, t_places, t_website, t_response, t_outcome, t_trace>>

\* resp.text() settles (lines 122-130).
T_SiteBody ==
  /\ RichIdle
  /\ t_pc = "awaitBody"
  /\ siteB[t_idx].kind \in {"page", "bodyfail"}
  /\ IF siteB[t_idx].kind = "page"
       THEN T_PushAndContinue(t_website, ExtractEmail(siteB[t_idx].html))
       ELSE T_PushAndContinue(t_website, Empty)
  /\ UNCHANGED <<inputVars, netVars, richVars, t_query, t_places, t_website, t_response, t_outcome, t_trace>>

PairNext ==
  \/ HandlerStart
  \/ SearchSettles
  \/ LoopStep
  \/ DetailSettles
  \/ SiteHeaders
  \/ SiteBody
  \/ AbortFires
  \/ T_Start
  \/ T_SearchSettles
  \/ T_LoopStep
  \/ T_DetailSettles
  \/ T_SiteHeaders
  \/ T_SiteBody

PairSpec == Init /\ [][PairNext]_vars

\* The event loop runs every continuation that is ready, a pending timer
\* fires, and an upstream that is going to answer answers.
FairSpec ==
  /\ Init
  /\ [][Next]_vars
  /\ WF_vars(HandlerStart)
  /\ WF_vars(SearchSettles)
  /\ WF_vars(LoopStep)
  /\ WF_vars(DetailSettles)
  /\ WF_vars(SiteHeaders)
  /\ WF_vars(SiteBody)
  /\ WF_vars(AbortFires)

(***************************************************************************)
(* Properties                                                              *)
(***************************************************************************)
Done == pc = "done"
Status == response.statusCode
Include == event.body.includeWebsiteEmail
Found == searchB.places
N == Len(Found)
IsPost == event.httpMethod = "POST"
NoNullPlace == \A i \in 1..N : ~Found[i].isNull
CallsOf(tr, kind, i) == {k \in 1..Len(tr) : tr[k] = Call(kind, i)}

\* What the upstream resolved for place i: the website of its detail
\* response and the address on the page of that website.
ResolvedWebsite(i) ==
  IF detailB[i].kind = "object" THEN OrElse(detailB[i].websiteUri, Empty) ELSE Empty
ResolvedEmail(i) ==
  IF siteB[i].kind = "page" /\ i \notin aborted THEN ExtractEmail(siteB[i].html) ELSE Empty

\* C1: with includeWebsiteEmail set and N places found, whatever subset of
\* the per-place lookups raises, the response is 200 with N results, each
\* failing place has empty website and email, and every other place has
\* the website and email resolved for it.
C1_FailureIsolation ==
  (Done /\ IsPost /\ Truthy(Include) /\ searchB.kind = "array" /\ NoNullPlace /\ failed # {})
    => /\ Status = 200
       /\ Len(response.body.results) = N
       /\ \A i \in 1..N :
            IF i \in failed
              THEN /\ response.body.results[i].website = Empty
                   /\ response.body.results[i].email = Empty
              ELSE /\ response.body.results[i].website = ResolvedWebsite(i)
                   /\ response.body.results[i].email = ResolvedEmail(i)

\* C2: every invocation that ends returns a response whose status is one
\* of 200, 204, 400, 405, 500 and whose body is a JSON object (the empty
\* body only for 204); the promise of the handler is never rejected.
C2_NeverThrows ==
  /\ outcome # "rejected"
  /\ Done =>
       /\ outcome = "returned"
       /\ Status \in {200, 204, 400, 405, 500}
       /\ response.body.isJson <=> Status # 204
       /\ Status \in {400, 405, 500} => "error" \in response.body.keys

\* An exception was thrown inside the loop (a null place) and the
\* invocation ended.
C2_Witness ==
  /\ Done
  /\ Status = 500
  /\ response.body.error = TypeError
  /\ Len(places) = MaxPlaces
  /\ results # << >>

\* absent, or a string that is empty after trimming
MissingField(v) == v = Undef \/ (IsString(v) /\ Trim(v.s) = << >>)

\* C3: a POST with the credential and a body that parses to an object in
\* which businessType or city is absent or blank after trimming is
\* answered 400 with an example and issues no search call.
C3_ValidationAfterTrim ==
  (/\ IsPost
   /\ Truthy(apiKey)
   /\ event.body.kind = "object"
   /\ MissingField(event.body.businessType) \/ MissingField(event.body.city))
    => /\ trace = << >>
       /\ Done => (Status = 400 /\ "example" \in response.body.keys)

\* C4: a POST without the credential is answered 500 by both handlers,
\* whatever the body, and neither handler issues an outbound call.
C4_CredentialFirst ==
  (IsPost /\ ~Truthy(apiKey))
    => /\ trace = << >>
       /\ t_trace = << >>
       /\ pc \in {"start", "done"}
       /\ t_pc \in {"start", "done"}
       /\ Done => Status = 500
       /\ t_pc = "done" => t_response.statusCode = 500

\* Both handlers answered a POST without the credential whose body would
\* otherwise have been searched.
C4_Witness ==
  /\ IsPost
  /\ ~Truthy(apiKey)
  /\ event.body.kind = "object"
  /\ ~Invalid(event.body.businessType, event.body.city)
  /\ Done
  /\ t_pc = "done"

\* C5: in every 200 response results has one entry per place the search
\* returned, in the order the search returned them, and count is the
\* length of results.
C5_ResultShape ==
  (Done /\ Status = 200)
    => /\ Len(response.body.results) = N
       /\ response.body.count = Len(response.body.results)
       /\ \A i \in 1..N :
            /\ response.body.results[i].name = OrElse(DisplayText(Found[i]), Empty)
            /\ response.body.results[i].address = OrElse(Found[i].formattedAddress, Empty)
            /\ response.body.results[i].google_maps_url = MapsUrl(Found[i].id)

\* A 200 response for different places, one of whose enrichments failed.
C5_Witness ==
  /\ Done
  /\ Status = 200
  /\ N = MaxPlaces
  /\ Found[1] # Found[2]
  /\ failed # {}
  /\ response.body.count = MaxPlaces

\* The source cleanGoogleError takes the message from.
SourceOf(text) ==
  IF text.json /\ text.errorMessage > 0 THEN "error.message"
  ELSE IF text.json /\ text.message > 0 THEN "message"
  ELSE "text"

\* C6: a search call that returns a non-success status ends the
\* invocation with a 500 carrying an error, no detail or website call is
\* issued, and the provider message in the error has at most 500
\* characters, taken from error.message, else message, else the text.
C6_SearchFailureFatal ==
  searchB.kind = "notok"
    => /\ trace = <<Call("search", 0)>>
       /\ pc \in {"awaitSearch", "done"}
       /\ Done =>
            /\ Status = 500
            /\ "error" \in response.body.keys
            /\ response.body.error.text = "Places Text Search failed"
            /\ response.body.error.len <= MsgLimit
            /\ response.body.error.src = SourceOf(searchB.err)

\* The search failed with a message longer than the limit.
C6_Witness ==
  /\ Done
  /\ searchB.kind = "notok"
  /\ searchB.err.errorMessage > MsgLimit
  /\ response.body.error.len = MsgLimit

InFindEmail == pc \in {"awaitSite", "awaitBody"}

\* C7: whatever the website does, findEmailFromWebsite eventually
\* returns, so the invocation eventually responds.
C7_FetchBounded == (InFindEmail ~> ~InFindEmail) /\ <>Done

\* C8: outbound calls are sequential and never repeated: at most one is in
\* flight; the first is the only search call; the calls for the places
\* follow in array order, at most one detail call and then at most one
\* website GET per place, the GET only after the detail call returned a
\* non-empty website; a place without id, or any place when
\* includeWebsiteEmail is false, gets no call.
C8_SequentialTrace ==
  /\ inflight \in {0, 1}
  /\ (Done /\ Status = 200) => Len(trace) >= 1
  /\ Done => inflight = 0
  /\ \A k \in 1..Len(trace) : (trace[k].call = "search") <=> (k = 1)
  /\ \A k, l \in 1..Len(trace) :
       k < l =>
         /\ trace[k] # trace[l]
         /\ trace[k].place <= trace[l].place
         /\ trace[k].place = trace[l].place =>
              (trace[k].call = "detail" /\ trace[l].call = "site")
  /\ \A k \in 1..Len(trace) :
       trace[k].call # "search" =>
         /\ trace[k].place \in 1..N
         /\ Truthy(Include)
         /\ Truthy(Found[trace[k].place].id)
  /\ \A k \in 1..Len(trace) :
       trace[k].call = "site" =>
         /\ CallsOf(trace, "detail", trace[k].place) # {}
         /\ detailB[trace[k].place].kind = "object"
         /\ IsString(detailB[trace[k].place].websiteUri)
         /\ detailB[trace[k].place].websiteUri # Empty

\* An invocation that made a failing detail call, went on to the next
\* place and fetched its website.
C8_Witness ==
  /\ Done
  /\ Status = 200
  /\ failed # {}
  /\ Len(trace) >= 4
  /\ \E k \in 1..Len(trace) : trace[k].call = "site"

\* C9: every field of every result of a 200 response is a string.
C9_FieldsAreStrings ==
  (Done /\ Status = 200)
    => \A i \in 1..Len(response.body.results) :
         /\ IsString(response.body.results[i].name)
         /\ IsString(response.body.results[i].address)
         /\ IsString(response.body.results[i].website)
         /\ IsString(response.body.results[i].email)
         /\ IsString(response.body.results[i].google_maps_url)

T_Done == t_pc = "done"
T_Status == t_response.statusCode

\* C10: when the terser handler responds 200 the richer handler responds
\* 200 with the same query and the same results, and when the terser
\* handler responds 204 or 405 the richer handler responds the same status.
C10_Dominates ==
  T_Done =>
    /\ T_Status = 200 =>
         /\ Done
         /\ Status = 200
         /\ response.body.query = t_response.body.query
         /\ response.body.results = t_response.body.results
    /\ T_Status \in {204, 405} => (Done /\ Status = T_Status)

NoOuterSpace(v) == Trim(v.s) = v.s

\* C10, amended: when the terser handler responds 200 the richer handler
\* responds 200, with the same query if businessType and city have no
\* white space around them, and with the same results except that email
\* is empty for the places whose website fetch its timer aborted; when the
\* terser handler responds 204 or 405 the richer handler responds the
\* same status.
C10_DominatesAmended ==
  T_Done =>
    /\ T_Status = 200 =>
         /\ Done
         /\ Status = 200
         /\ (NoOuterSpace(event.body.businessType) /\ NoOuterSpace(event.body.city))
              => response.body.query = t_response.body.query
         /\ Len(response.body.results) = Len(t_response.body.results)
         /\ \A i \in 1..Len(t_response.body.results) :
              response.body.results[i] =
                IF i \in aborted
                  THEN [t_response.body.results[i] EXCEPT !.email = Empty]
                  ELSE t_response.body.results[i]
    /\ T_Status \in {204, 405} => (Done /\ Status = T_Status)

\* Both handlers responded 200 to a request without white space around its
\* fields; the terser one found an address on a website that the richer
\* one gave up on, and both found the address of another.
C10_Witness ==
  /\ T_Done
  /\ T_Status = 200
  /\ Done
  /\ Status = 200
  /\ NoOuterSpace(event.body.businessType)
  /\ NoOuterSpace(event.body.city)
  /\ \E i \in 1..Len(t_results) : t_results[i].email # Empty /\ results[i].email = Empty
  /\ \E i \in 1..Len(t_results) : t_results[i].email # Empty /\ results[i].email = t_results[i].email

====
